---- MODULE Spec2Model ----
(***************************************************************************)
(* Tool-call dispatch loops of Mistral-labs:                               *)
(*   src/tool_calling.py                 run_agent, create_directory       *)
(*   src/creating_files_tool_calling.py  run_agent_with_api,               *)
(*                                       run_agent_with_ollama,            *)
(*                                       create_directory                  *)
(* Strings that the code takes apart (paths, JSON payloads, model          *)
(* replies) are sequences: a path is a sequence of one-character strings,  *)
(* a JSON text is a sequence of tokens.                                    *)
(***************************************************************************)
EXTENDS Naturals, Integers, Sequences, FiniteSets, TLC

VARIABLES
    agent,           \* the dispatch loop that is running
    pc,              \* position of the run
    messages,        \* the Conversation (the list `messages`)
    response,        \* the first response
    tool_calls,      \* response.choices[0].message.tool_calls
    idx,             \* position of the for loop in tool_calls
    final_response,  \* the follow-up response
    requestLog,      \* requests issued to the chat endpoint in this run
    execLog,         \* create_directory calls made in this run
    output,          \* what the run printed
    fs,              \* the filesystem
    cd_args,         \* arguments of a direct create_directory call
    cd_out,          \* outcomes of the direct create_directory calls
    api_key,         \* what os.getenv("MISTRAL_API_KEY") gave this process
    eq_in,           \* inputs given to both hosted-API loops
    eq_out           \* what each hosted-API loop made of eq_in

vars == <<agent, pc, messages, response, tool_calls, idx, final_response,
          requestLog, execLog, output, fs, cd_args, cd_out, api_key,
          eq_in, eq_out>>

loopVars == <<agent, pc, messages, response, tool_calls, idx, final_response,
              requestLog, execLog, output>>

(***************************************************************************)
(* Bounds                                                                  *)
(***************************************************************************)
\* longest path / directory-name string given to a direct create_directory call
MaxLen == 2
\* most invocations in one ToolRequest batch
MaxBatch == 2

(***************************************************************************)
(* Paths and the filesystem                                                *)
(***************************************************************************)
\* characters of path strings
PathChars == {"~", "/", "h", "r", "f"}

\* Python's None, where a string is expected
None == <<"None">>

Str(n) == UNION {[1..k -> PathChars] : k \in 0..n}

\* $HOME, as os.path.expanduser sees it
Home == <<"/", "h">>

\* the working directory of the process: the home directory
Cwd == << <<"h">> >>

NoError == "none"

\* os.path.expanduser (posixpath): "~" or "~/..." is replaced by $HOME; "~user"
\* of an unknown user and every other path are returned unchanged
expanduser(path) ==
    IF Len(path) >= 1 /\ path[1] = "~" /\ (Len(path) = 1 \/ path[2] = "/")
    THEN Home \o SubSeq(path, 2, Len(path))
    ELSE path

\* os.path.join (posixpath) of two strings
join(a, b) ==
    IF Len(b) >= 1 /\ b[1] = "/" THEN b
    ELSE IF Len(a) = 0 \/ a[Len(a)] = "/" THEN a \o b
    ELSE a \o <<"/">> \o b

RECURSIVE SplitAcc(_, _, _, _)
SplitAcc(s, i, cur, acc) ==
    IF i > Len(s)
    THEN IF Len(cur) = 0 THEN acc ELSE Append(acc, cur)
    ELSE IF s[i] = "/"
         THEN SplitAcc(s, i + 1, <<>>, IF Len(cur) = 0 THEN acc ELSE Append(acc, cur))
         ELSE SplitAcc(s, i + 1, Append(cur, s[i]), acc)

\* the components of a path string, empty components dropped
Components(s) == SplitAcc(s, 1, <<>>, <<>>)

\* the absolute location a path string names: a sequence of components
Resolve(s) ==
    IF Len(s) >= 1 /\ s[1] = "/" THEN Components(s) ELSE Cwd \o Components(s)

\* the filesystem before any run: / , /h (home), /r (no write permission),
\* and a regular file /f
FS0 ==
    [dirs  |-> {<<>>, << <<"h">> >>, << <<"r">> >>},
     files |-> {<< <<"f">> >>},
     ro    |-> {<< <<"r">> >>}]

RECURSIVE Walk(_, _, _)
Walk(f, comps, i) ==
    IF i > Len(comps) THEN [err |-> NoError, fs |-> f]
    ELSE LET p == SubSeq(comps, 1, i)
             parent == SubSeq(comps, 1, i - 1)
         IN IF p \in f.dirs THEN Walk(f, comps, i + 1)
            ELSE IF p \in f.files
                 THEN [err |-> IF i = Len(comps) THEN "FileExistsError"
                                                 ELSE "NotADirectoryError",
                       fs |-> f]
            ELSE IF parent \in f.ro THEN [err |-> "PermissionError", fs |-> f]
            ELSE Walk([f EXCEPT !.dirs = @ \cup {p}], comps, i + 1)

\* os.makedirs(full_path, exist_ok=True): creates every missing directory on
\* the way, leaves existing directories alone, and raises on the first
\* component it can neither find as a directory nor create
makedirs_exist_ok_false(f, full_path) ==
    IF Len(full_path) = 0 THEN [err |-> "FileNotFoundError", fs |-> f]
    ELSE IF Resolve(full_path) \in f.dirs THEN [err |-> "FileExistsError", fs |-> f]
    ELSE Walk(f, Resolve(full_path), 1)

makedirs(f, full_path) ==
    IF Len(full_path) = 0 THEN [err |-> "FileNotFoundError", fs |-> f]
    ELSE Walk(f, Resolve(full_path), 1)

\* the classes `except Exception` catches among those the body can raise
ExceptionSubclasses ==
    {"TypeError", "FileNotFoundError", "FileExistsError",
     "NotADirectoryError", "PermissionError", "KeyError", "JSONDecodeError"}

CaughtOnlyFileExists(exc) == exc = "FileExistsError"

\* `except Exception as e` of create_directory
Caught(exc) == exc \in ExceptionSubclasses

\* the try block of create_directory: what it returns or raises, and the
\* filesystem it leaves
create_directory_try(f, path, directory_name) ==
    IF path = None \/ directory_name = None
    THEN [exc |-> "TypeError", result |-> None, fs |-> f]
    ELSE LET expanded_path == expanduser(path)
             full_path == join(expanded_path, directory_name)
             m == makedirs(f, full_path)
         IN IF m.err = NoError
            THEN [exc |-> NoError,
                  result |-> [success |-> TRUE,
                              message |-> <<"Directory created successfully at: ">>
                                          \o full_path,
                              path |-> full_path],
                  fs |-> m.fs]
            ELSE [exc |-> m.err, result |-> None, fs |-> m.fs]

\* create_directory(path, directory_name): exc is what leaves the function as
\* an exception (NoError: it returned `result`)
create_directory(f, path, directory_name) ==
    LET t == create_directory_try(f, path, directory_name)
    IN IF t.exc # NoError /\ Caught(t.exc)
       THEN [exc |-> NoError,
             result |-> [success |-> FALSE,
                         message |-> <<"Error creating directory: ", t.exc>>,
                         path |-> None],
             fs |-> t.fs]
       ELSE t

(***************************************************************************)
(* JSON texts                                                              *)
(* A JSON text is a sequence of tokens [k, v]: "{" and "}", a member       *)
(* `"k": v` with a scalar value v, the key `"arguments":` (its value       *)
(* follows), a scalar standing alone, and "w", a word of prose.            *)
(***************************************************************************)
LB == [k |-> "{", v |-> <<>>]
RB == [k |-> "}", v |-> <<>>]
W == [k |-> "w", v |-> <<>>]
SCALAR == [k |-> "scalar", v |-> <<"1">>]
ARGS == [k |-> "arguments", v |-> <<>>]
Member(key, value) == [k |-> key, v |-> value]

MemberKeys == {"tool", "path", "directory_name", "success", "message"}

ParseFail == [ok |-> FALSE, val |-> [type |-> "none", members |-> <<>>, v |-> <<>>], next |-> 0]

RECURSIVE ParseValue(_, _)
RECURSIVE ParseMembers(_, _, _)
\* one JSON value starting at token i
ParseValue(t, i) ==
    IF i > Len(t) THEN ParseFail
    ELSE IF t[i].k = "{" THEN ParseMembers(t, i + 1, <<>>)
    ELSE IF t[i].k = "scalar"
         THEN [ok |-> TRUE,
               val |-> [type |-> "scalar", members |-> <<>>, v |-> t[i].v],
               next |-> i + 1]
    ELSE ParseFail

\* the members of an object up to its closing brace
ParseMembers(t, i, acc) ==
    IF i > Len(t) THEN ParseFail
    ELSE IF t[i].k = "}"
         THEN [ok |-> TRUE,
               val |-> [type |-> "object", members |-> acc, v |-> <<>>],
               next |-> i + 1]
    ELSE IF t[i].k \in MemberKeys
         THEN ParseMembers(t, i + 1,
                  Append(acc, [key |-> t[i].k,
                               val |-> [type |-> "scalar", members |-> <<>>,
                                        v |-> t[i].v]]))
    ELSE IF t[i].k = "arguments"
         THEN LET r == ParseValue(t, i + 1)
              IN IF r.ok
                 THEN ParseMembers(t, r.next,
                          Append(acc, [key |-> "arguments", val |-> r.val]))
                 ELSE ParseFail
    ELSE ParseFail

\* json.loads: the whole text must be one value
json_loads(t) ==
    LET r == ParseValue(t, 1)
    IN IF r.ok /\ r.next = Len(t) + 1
       THEN [exc |-> NoError, val |-> r.val]
       ELSE [exc |-> "JSONDecodeError", val |-> ParseFail.val]

HasKey(val, key) ==
    val.type = "object" /\ \E j \in 1..Len(val.members) : val.members[j].key = key

\* the value a dict holds for a key: that of the last member with the key
LastOf(val, key) ==
    LET js == {j \in 1..Len(val.members) : val.members[j].key = key}
        last == CHOOSE j \in js : \A j2 \in js : j2 <= j
    IN val.members[last].val

\* obj[key]
GetItem(val, key) ==
    IF val.type # "object" THEN [exc |-> "TypeError", val |-> ParseFail.val]
    ELSE IF ~HasKey(val, key) THEN [exc |-> "KeyError", val |-> ParseFail.val]
    ELSE [exc |-> NoError, val |-> LastOf(val, key)]

\* a decoded value as the Python value create_directory receives; a value
\* that is not a str makes create_directory raise TypeError, as None does
PyStr(val) == IF val.type = "scalar" THEN val.v ELSE None

\* json.dumps of an Action Result
json_dumps(result) ==
    <<LB,
      Member("success", IF result.success THEN <<"true">> ELSE <<"false">>),
      Member("message", result.message),
      Member("path", IF result.path = None THEN <<"null">> ELSE result.path),
      RB>>

\* str.find and str.rfind of a one-token pattern: 0-based, -1 when absent
find(s, key) ==
    LET js == {j \in 1..Len(s) : s[j].k = key}
    IN IF js = {} THEN -1 ELSE (CHOOSE j \in js : \A j2 \in js : j <= j2) - 1

rfind_first(s, key) ==
    LET js == {j \in 1..Len(s) : s[j].k = key}
    IN IF js = {} THEN -1 ELSE (CHOOSE j \in js : \A j2 \in js : j <= j2) - 1

rfind(s, key) ==
    LET js == {j \in 1..Len(s) : s[j].k = key}
    IN IF js = {} THEN -1 ELSE (CHOOSE j \in js : \A j2 \in js : j2 <= j) - 1

\* the slice s[start:end] for 0 <= start
Slice(s, start, end) == SubSeq(s, start + 1, end)

(***************************************************************************)
(* What the model and the user can send                                    *)
(***************************************************************************)
ApiAgents == {"run_agent", "run_agent_with_api"}
OllamaAgent == "run_agent_with_ollama"

Prompts == {"make a folder on my desktop", "I need a directory on the desktop"}

\* get_desktop_path(): os.path.join(home, 'Desktop')
get_desktop_path == Home \o <<"/", "Desktop">>

\* the Schema Descriptor: the module-level list `tools`
tools ==
    <<[type |-> "function",
       name |-> "create_directory",
       properties |-> {"path", "directory_name"},
       required |-> {"path", "directory_name"}]>>

NoTools == <<>>

ArgsObject(p, n) == <<LB, Member("path", p), Member("directory_name", n), RB>>

\* argument payloads of a tool call: three decodable and complete ones
\* (/h/f and ~/r can be created, /r/h is refused), one that lacks
\* directory_name, one that is a JSON scalar, one that is not JSON
Payloads ==
    {ArgsObject(<<"/", "h">>, <<"f">>),
     ArgsObject(<<"~">>, <<"r">>),
     ArgsObject(<<"/", "r">>, <<"h">>),
     <<LB, Member("path", <<"/", "h">>), RB>>,
     <<SCALAR>>,
     <<W>>}

ToolNames == {"create_directory", "write_file"}

Invocations == [name : ToolNames, arguments : Payloads]

\* the tool_calls of a response: the i-th invocation carries the id i
Batches ==
    UNION {{[i \in 1..n |-> [id |-> i, name |-> b[i].name,
                             arguments |-> b[i].arguments]] :
                b \in [1..n -> Invocations]} : n \in 0..MaxBatch}

FinishReasons == {"tool_calls", "stop"}

Texts == {"text"}

\* tool calls a response may carry although the loop does not look at them
StrayCalls ==
    {<<>>,
     <<[id |-> 1, name |-> "create_directory",
        arguments |-> ArgsObject(<<"/", "h">>, <<"f">>)]>>}

\* first responses of the hosted chat-completion endpoint: a ToolRequest with
\* any batch, or another finish reason (with or without stray tool calls)
ApiResponses ==
    [finish_reason : {"tool_calls"}, content : Texts, tool_calls : Batches]
    \cup [finish_reason : FinishReasons \ {"tool_calls"}, content : Texts,
          tool_calls : StrayCalls]

\* follow-up responses: text, or once more a request for a tool call
ApiFollowupResponses ==
    [finish_reason : FinishReasons, content : Texts, tool_calls : StrayCalls]

NoResponse == [finish_reason |-> "", content |-> "", tool_calls |-> <<>>]

ToolObject(name, args) == <<LB, Member("tool", <<name>>), ARGS>> \o args \o <<RB>>

\* the JSON-looking part of a local-server reply
ReplyCores ==
    {ToolObject("create_directory", ArgsObject(<<"/", "h">>, <<"f">>)),
     ToolObject("create_directory", ArgsObject(<<"/", "r">>, <<"h">>)),
     ToolObject("write_file", ArgsObject(<<"/", "h">>, <<"f">>)),
     ToolObject("create_directory", <<LB, Member("path", <<"/", "h">>), RB>>),
     ToolObject("create_directory", <<SCALAR>>),
     <<LB, Member("tool", <<"create_directory">>), RB>>,
     <<LB, Member("path", <<"/", "h">>), RB>>,
     <<LB, W, RB>>,
     <<LB>>,
     <<RB, LB>>,
     <<>>}

\* prose around the core: none, a word, or a brace of its own
Prose == {<<>>, <<W>>, <<LB>>, <<RB>>}

\* replies of the local server: prose, a core, prose
Replies == {pre \o core \o post : pre \in Prose, core \in ReplyCores, post \in Prose}

\* responses of the local server: status 200 carries message.content, any
\* other status carries an error body without a message
OllamaResponses ==
    [status_code : {200}, has_message : {TRUE}, content : Replies]
    \cup [status_code : {500}, has_message : {FALSE}, content : {<<>>}]

OllamaFinalResponses ==
    [status_code : {200}, has_message : {TRUE}, content : Texts]
    \cup [status_code : {500}, has_message : {FALSE}, content : {""}]

(***************************************************************************)
(* Initial state                                                           *)
(***************************************************************************)
LoopInit ==
    /\ agent = "none"
    /\ pc = "idle"
    /\ messages = <<>>
    /\ response = NoResponse
    /\ tool_calls = <<>>
    /\ idx = 0
    /\ final_response = NoResponse
    /\ requestLog = <<>>
    /\ execLog = <<>>
    /\ output = <<>>

\* os.getenv of a variable that is not set
Unset == "<unset>"

\* the value creating_files_tool_calling.py puts in place of a missing key
Placeholder == "YOUR_API_KEY_HERE"

\* what the environment can hold for MISTRAL_API_KEY
EnvValues == {Unset, "", "secret"}

\* os.getenv("MISTRAL_API_KEY") or "YOUR_API_KEY_HERE"
KeyOrPlaceholder(v) == IF v = Unset \/ v = "" THEN Placeholder ELSE v

\* the endpoint answers requests that carry this credential
Accepted(key) == key = "secret"

\* no inputs given yet
NoEq == [user_prompt |-> "", response |-> NoResponse, final_response |-> NoResponse]

Init ==
    /\ LoopInit
    /\ fs = FS0
    /\ cd_args = [path |-> <<>>, directory_name |-> <<>>]
    /\ cd_out = <<>>
    /\ api_key = Unset
    /\ eq_in = NoEq
    /\ eq_out = <<>>

Printed(kind, text) == [kind |-> kind, text |-> text]

\* an exception nobody catches ends the process with a traceback
Raise(exc) ==
    /\ pc' = "fault"
    /\ output' = Append(output, Printed("traceback", exc))

\* tool_calling.py: enhanced_prompt = f"{user_prompt}\n\nNote: ..." and
\* messages = [{"role": "user", "content": enhanced_prompt}]
InitialMessages(user_prompt) ==
    LET desktop_path == get_desktop_path
        enhanced_prompt == <<user_prompt, "Note: The desktop path is: ">> \o desktop_path
    IN <<[role |-> "user", content |-> enhanced_prompt]>>

\* tool_calling.py: client.chat.complete(messages=messages, tools=tools,
\* tool_choice="auto")
FirstRequest(msgs) == [messages |-> msgs, tools |-> tools, tool_choice |-> "auto"]

\* creating_files_tool_calling.py: the module-level list `tools`
tools_creating_files ==
    <<[type |-> "function",
       name |-> "create_directory",
       properties |-> {"path", "directory_name"},
       required |-> {"path", "directory_name"}]>>

\* creating_files_tool_calling.py: enhanced_prompt and messages of
\* run_agent_with_api
InitialMessagesApi(user_prompt) ==
    LET desktop_path == get_desktop_path
        enhanced_prompt == <<user_prompt, "Note: The desktop path is: ">> \o desktop_path
    IN <<[role |-> "user", content |-> enhanced_prompt]>>

\* creating_files_tool_calling.py: the first client.chat.complete of
\* run_agent_with_api
FirstRequestApi(msgs) ==
    [messages |-> msgs, tools |-> tools_creating_files, tool_choice |-> "auto"]

ApiStartKeepingMessages(a, user_prompt) ==
    /\ pc \in {"idle", "done", "fault"}
    /\ LET m == IF a = "run_agent" THEN InitialMessages(user_prompt)
                ELSE InitialMessagesApi(user_prompt)
       IN /\ messages' = messages \o m
          /\ requestLog' = <<IF a = "run_agent" THEN FirstRequest(m)
                             ELSE FirstRequestApi(m)>>
    /\ agent' = a
    /\ pc' = "awaiting_first"
    /\ response' = NoResponse
    /\ final_response' = NoResponse
    /\ tool_calls' = <<>>
    /\ idx' = 0
    /\ execLog' = <<>>
    /\ output' = <<Printed("request", user_prompt)>>
    /\ UNCHANGED <<fs, cd_args, cd_out, eq_in, eq_out>>

(***************************************************************************)
(* run_agent and run_agent_with_api (the same statements in both files)    *)
(***************************************************************************)
\* messages = [{"role": "user", "content": enhanced_prompt}] and the first
\* client.chat.complete(messages, tools=tools, tool_choice="auto")
ApiStart(a, user_prompt) ==
    /\ pc \in {"idle", "done", "fault"}
    /\ LET m == IF a = "run_agent" THEN InitialMessages(user_prompt)
                ELSE InitialMessagesApi(user_prompt)
       IN /\ messages' = m
          /\ requestLog' = <<IF a = "run_agent" THEN FirstRequest(m)
                             ELSE FirstRequestApi(m)>>
    /\ agent' = a
    /\ pc' = "awaiting_first"
    /\ response' = NoResponse
    /\ final_response' = NoResponse
    /\ tool_calls' = <<>>
    /\ idx' = 0
    /\ execLog' = <<>>
    /\ output' = <<Printed("request", user_prompt)>>
    /\ UNCHANGED <<fs, cd_args, cd_out, eq_in, eq_out>>

WantsToolWhenCallsPresent(resp) == Len(resp.tool_calls) > 0

\* if response.choices[0].finish_reason == "tool_calls"
WantsTool(resp) == resp.finish_reason = "tool_calls"

\* creating_files_tool_calling.py: the same test in run_agent_with_api
WantsToolApi(resp) == resp.finish_reason = "tool_calls"

\* the first response arrives
ApiFirstResponse(resp) ==
    /\ pc = "awaiting_first"
    /\ agent \in ApiAgents
    /\ Accepted(api_key)
    /\ response' = resp
    /\ IF (IF agent = "run_agent" THEN WantsTool(resp) ELSE WantsToolApi(resp))
       THEN /\ tool_calls' = resp.tool_calls
            /\ messages' = Append(messages,
                               [role |-> "assistant", content |-> resp.content,
                                tool_calls |-> resp.tool_calls])
            /\ idx' = 1
            /\ pc' = "executing"
            /\ output' = Append(output, Printed("stop reason", resp.finish_reason))
       ELSE /\ pc' = "done"
            /\ output' = output \o <<Printed("stop reason", resp.finish_reason),
                                     Printed("final", resp.content)>>
            /\ UNCHANGED <<tool_calls, messages, idx>>
    /\ UNCHANGED <<agent, final_response, requestLog, execLog, fs, cd_args, cd_out,
                   api_key, eq_in, eq_out>>

\* client.chat.complete raises (the endpoint is unreachable); nothing in
\* run_agent catches it
ApiConnectionError ==
    /\ pc \in {"awaiting_first", "awaiting_final"}
    /\ agent \in ApiAgents
    /\ Raise("ConnectionError")
    /\ UNCHANGED <<agent, messages, response, tool_calls, idx, final_response,
                   requestLog, execLog, fs, cd_args, cd_out,
                   api_key, eq_in, eq_out>>

\* the endpoint refuses a request without a valid credential (401): the
\* client raises, and nothing in run_agent catches it
ApiUnauthorized ==
    /\ pc = "awaiting_first"
    /\ agent \in ApiAgents
    /\ ~Accepted(api_key)
    /\ Raise("SDKError")
    /\ UNCHANGED <<agent, messages, response, tool_calls, idx, final_response,
                   requestLog, execLog, fs, cd_args, cd_out,
                   api_key, eq_in, eq_out>>

RegisteredWithWriteFile(name) == name \in {"create_directory", "write_file"}

\* if tool_call.function.name == "create_directory"
Registered(name) == name = "create_directory"

\* the tool-result turn of an executed invocation
ToolTurnUncorrelated(tool_call, result) ==
    [role |-> "tool",
     name |-> tool_call.name,
     content |-> json_dumps(result),
     tool_call_id |-> 1]

ToolTurn(tool_call, result) ==
    [role |-> "tool",
     name |-> tool_call.name,
     content |-> json_dumps(result),
     tool_call_id |-> tool_call.id]

add_tool_result_dropped(msgs, turn) == msgs

add_tool_result_after_user(msgs, turn) == <<msgs[1], turn>> \o Tail(msgs)

\* messages.append({...}) of a tool-result turn
add_tool_result(msgs, turn) == Append(msgs, turn)

\* one iteration of `for tool_call in tool_calls`: what it raises, and the
\* filesystem, the Conversation and the executions it leaves
ProcessToolCall(f, msgs, tool_call) ==
    LET stay == [exc |-> NoError, fs |-> f, messages |-> msgs, executed |-> <<>>]
        args == json_loads(tool_call.arguments)
    IN IF args.exc # NoError THEN [stay EXCEPT !.exc = args.exc]
       ELSE IF ~Registered(tool_call.name) THEN stay
       ELSE LET p == GetItem(args.val, "path")
                n == GetItem(args.val, "directory_name")
            IN IF p.exc # NoError THEN [stay EXCEPT !.exc = p.exc]
               ELSE IF n.exc # NoError THEN [stay EXCEPT !.exc = n.exc]
               ELSE LET r == create_directory(f, PyStr(p.val), PyStr(n.val))
                    IN IF r.exc # NoError THEN [stay EXCEPT !.exc = r.exc, !.fs = r.fs]
                       ELSE [exc |-> NoError,
                             fs |-> r.fs,
                             messages |-> add_tool_result(msgs, ToolTurn(tool_call, r.result)),
                             executed |-> <<[id |-> tool_call.id,
                                             path |-> PyStr(p.val),
                                             directory_name |-> PyStr(n.val),
                                             result |-> r.result]>>]

\* creating_files_tool_calling.py: one iteration of the for loop of
\* run_agent_with_api
ProcessToolCallApi(f, msgs, tool_call) ==
    LET stay == [exc |-> NoError, fs |-> f, messages |-> msgs, executed |-> <<>>]
        args == json_loads(tool_call.arguments)
    IN IF args.exc # NoError THEN [stay EXCEPT !.exc = args.exc]
       ELSE IF tool_call.name # "create_directory" THEN stay
       ELSE LET p == GetItem(args.val, "path")
                n == GetItem(args.val, "directory_name")
            IN IF p.exc # NoError THEN [stay EXCEPT !.exc = p.exc]
               ELSE IF n.exc # NoError THEN [stay EXCEPT !.exc = n.exc]
               ELSE LET r == create_directory(f, PyStr(p.val), PyStr(n.val))
                        turn == [role |-> "tool",
                                 name |-> tool_call.name,
                                 content |-> json_dumps(r.result),
                                 tool_call_id |-> tool_call.id]
                    IN IF r.exc # NoError THEN [stay EXCEPT !.exc = r.exc, !.fs = r.fs]
                       ELSE [exc |-> NoError,
                             fs |-> r.fs,
                             messages |-> Append(msgs, turn),
                             executed |-> <<[id |-> tool_call.id,
                                             path |-> PyStr(p.val),
                                             directory_name |-> PyStr(n.val),
                                             result |-> r.result]>>]

\* the body of the for loop for the next tool call of the batch
ApiProcessToolCall ==
    /\ pc = "executing"
    /\ agent \in ApiAgents
    /\ idx <= Len(tool_calls)
    /\ LET r == IF agent = "run_agent"
                THEN ProcessToolCall(fs, messages, tool_calls[idx])
                ELSE ProcessToolCallApi(fs, messages, tool_calls[idx])
       IN /\ fs' = r.fs
          /\ messages' = r.messages
          /\ execLog' = execLog \o r.executed
          /\ IF r.exc # NoError
             THEN /\ Raise(r.exc)
                  /\ idx' = idx
             ELSE /\ idx' = idx + 1
                  /\ pc' = pc
                  /\ output' = output \o [j \in 1..Len(r.executed) |->
                                   Printed("tool result", r.executed[j].result)]
    /\ UNCHANGED <<agent, response, tool_calls, final_response, requestLog,
                   cd_args, cd_out,
                   api_key, eq_in, eq_out>>

FollowupRequestWithTools(msgs) ==
    [messages |-> msgs, tools |-> tools, tool_choice |-> "auto"]

\* client.chat.complete(model=..., messages=messages): no tools argument
FollowupRequest(msgs) == [messages |-> msgs, tools |-> NoTools, tool_choice |-> ""]

FollowupRequestApiWithTools(msgs) ==
    [messages |-> msgs, tools |-> tools_creating_files, tool_choice |-> "auto"]

\* creating_files_tool_calling.py: client.chat.complete(model=...,
\* messages=messages) of run_agent_with_api
FollowupRequestApi(msgs) == [messages |-> msgs, tools |-> NoTools, tool_choice |-> ""]

\* the for loop is over: the second client.chat.complete
ApiFollowup ==
    /\ pc = "executing"
    /\ agent \in ApiAgents
    /\ idx > Len(tool_calls)
    /\ requestLog' = Append(requestLog,
                             IF agent = "run_agent" THEN FollowupRequest(messages)
                             ELSE FollowupRequestApi(messages))
    /\ pc' = "awaiting_final"
    /\ UNCHANGED <<agent, messages, response, tool_calls, idx, final_response,
                   execLog, output, fs, cd_args, cd_out,
                   api_key, eq_in, eq_out>>

ApiFinalResponseRecursing(resp) ==
    /\ pc = "awaiting_final"
    /\ agent \in ApiAgents
    /\ final_response' = resp
    /\ IF WantsTool(resp)
       THEN /\ tool_calls' = resp.tool_calls
            /\ idx' = 1
            /\ pc' = "executing"
            /\ UNCHANGED output
       ELSE /\ pc' = "done"
            /\ output' = Append(output, Printed("final", resp.content))
            /\ UNCHANGED <<tool_calls, idx>>
    /\ UNCHANGED <<agent, messages, response, requestLog, execLog, fs,
                   cd_args, cd_out,
                   api_key, eq_in, eq_out>>

\* the follow-up response arrives: its message content is printed, whatever
\* its finish reason and tool calls
ApiFinalResponse(resp) ==
    /\ pc = "awaiting_final"
    /\ agent \in ApiAgents
    /\ final_response' = resp
    /\ output' = Append(output, Printed("final", resp.content))
    /\ pc' = "done"
    /\ UNCHANGED <<agent, messages, response, tool_calls, idx, requestLog,
                   execLog, fs, cd_args, cd_out,
                   api_key, eq_in, eq_out>>

(***************************************************************************)
(* run_agent_with_ollama                                                   *)
(***************************************************************************)
\* the system prompt inlines json.dumps(tools) and the desktop path
system_prompt == [tools |-> tools_creating_files, desktop_path |-> get_desktop_path]

\* requests.post(".../api/chat", json={"model", "messages", "stream": False})
OllamaRequest(msgs) == [messages |-> msgs, tools |-> NoTools, tool_choice |-> ""]

OllamaStart(user_prompt) ==
    /\ pc \in {"idle", "done", "fault"}
    /\ agent' = OllamaAgent
    /\ pc' = "awaiting_first"
    /\ messages' = <<>>
    /\ requestLog' = <<OllamaRequest(<<[role |-> "system", content |-> system_prompt],
                                        [role |-> "user", content |-> user_prompt]>>)>>
    /\ response' = NoResponse
    /\ final_response' = NoResponse
    /\ tool_calls' = <<>>
    /\ idx' = 0
    /\ execLog' = <<>>
    /\ output' = <<Printed("request", user_prompt)>>
    /\ UNCHANGED <<fs, cd_args, cd_out, eq_in, eq_out>>

\* lines 182-187: the region from the first "{" to the last "}", decoded
ExtractToolCall(llm_response) ==
    LET start == find(llm_response, "{")
        end == rfind(llm_response, "}") + 1
    IN IF start # -1 /\ end > start
       THEN LET d == json_loads(Slice(llm_response, start, end))
            IN [found |-> TRUE, exc |-> d.exc, val |-> d.val]
       ELSE [found |-> FALSE, exc |-> NoError, val |-> ParseFail.val]

IsAnyTool(tool_call) == HasKey(tool_call, "tool")

\* tool_call.get("tool") == "create_directory"
IsCreateDirectory(tool_call) ==
    /\ HasKey(tool_call, "tool")
    /\ LastOf(tool_call, "tool").type = "scalar"
    /\ LastOf(tool_call, "tool").v = <<"create_directory">>

\* lines 180-199 after a 200 reply: what leaves the inner try as an
\* exception, and the execution it made
OllamaDispatch(f, llm_response) ==
    LET stay == [exc |-> NoError, fs |-> f, executed |-> <<>>]
        tc == ExtractToolCall(llm_response)
    IN IF ~tc.found THEN stay
       ELSE IF tc.exc # NoError THEN [stay EXCEPT !.exc = tc.exc]
       ELSE IF ~IsCreateDirectory(tc.val) THEN stay
       ELSE LET args == GetItem(tc.val, "arguments")
            IN IF args.exc # NoError THEN [stay EXCEPT !.exc = args.exc]
               ELSE LET p == GetItem(args.val, "path")
                        n == GetItem(args.val, "directory_name")
                    IN IF p.exc # NoError THEN [stay EXCEPT !.exc = p.exc]
                       ELSE IF n.exc # NoError THEN [stay EXCEPT !.exc = n.exc]
                       ELSE LET r == create_directory(f, PyStr(p.val), PyStr(n.val))
                            IN [exc |-> r.exc,
                                fs |-> r.fs,
                                executed |-> IF r.exc # NoError THEN <<>>
                                             ELSE <<[id |-> 0,
                                                     path |-> PyStr(p.val),
                                                     directory_name |-> PyStr(n.val),
                                                     result |-> r.result]>>]

\* the message list of the second requests.post
OllamaFollowupMessages(user_prompt, llm_response, result) ==
    <<[role |-> "system", content |-> system_prompt],
      [role |-> "user", content |-> user_prompt],
      [role |-> "assistant", content |-> llm_response],
      [role |-> "user", content |-> <<"Tool execution result: ">> \o json_dumps(result)]>>

\* the first reply arrives: lines 170-220
OllamaFirstResponse(resp) ==
    /\ pc = "awaiting_first"
    /\ agent = OllamaAgent
    /\ response' = resp
    /\ IF resp.status_code # 200
       THEN /\ output' = Append(output, Printed("error", "Ollama returned status"))
            /\ pc' = "done"
            /\ UNCHANGED <<fs, execLog, requestLog>>
       ELSE LET shown == Append(output, Printed("llm response", resp.content))
                d == OllamaDispatch(fs, resp.content)
            IN /\ fs' = d.fs
               /\ execLog' = execLog \o d.executed
               /\ IF d.exc = "JSONDecodeError"
                  THEN /\ output' = Append(shown, Printed("error", "Could not parse tool call"))
                       /\ pc' = "done"
                       /\ UNCHANGED requestLog
                  ELSE IF d.exc # NoError
                  THEN /\ pc' = "fault"
                       /\ output' = Append(shown, Printed("traceback", d.exc))
                       /\ UNCHANGED requestLog
                  ELSE IF Len(d.executed) = 0
                  THEN /\ output' = shown
                       /\ pc' = "done"
                       /\ UNCHANGED requestLog
                  ELSE /\ output' = Append(shown, Printed("tool result", d.executed[1].result))
                       /\ requestLog' = Append(requestLog,
                              OllamaRequest(OllamaFollowupMessages(
                                  requestLog[1].messages[2].content, resp.content,
                                  d.executed[1].result)))
                       /\ pc' = "awaiting_final"
    /\ UNCHANGED <<agent, messages, tool_calls, idx, final_response, cd_args, cd_out,
                   api_key, eq_in, eq_out>>

\* the follow-up reply arrives: final_response.json()["message"]["content"]
OllamaFinalResponse(resp) ==
    /\ pc = "awaiting_final"
    /\ agent = OllamaAgent
    /\ final_response' = resp
    /\ IF resp.has_message
       THEN /\ output' = Append(output, Printed("final", resp.content))
            /\ pc' = "done"
       ELSE Raise("KeyError")
    /\ UNCHANGED <<agent, messages, response, tool_calls, idx, requestLog,
                   execLog, fs, cd_args, cd_out,
                   api_key, eq_in, eq_out>>

OllamaConnectionErrorRetrying ==
    /\ pc \in {"awaiting_first", "awaiting_final"}
    /\ agent = OllamaAgent
    /\ output' = Append(output, Printed("error", "Could not connect to Ollama"))
    /\ requestLog' = Append(requestLog, requestLog[Len(requestLog)])
    /\ UNCHANGED <<agent, pc, messages, response, tool_calls, idx, final_response,
                   execLog, fs, cd_args, cd_out, api_key, eq_in, eq_out>>

\* requests.post raises ConnectionError: the outer except reports it
OllamaConnectionError ==
    /\ pc \in {"awaiting_first", "awaiting_final"}
    /\ agent = OllamaAgent
    /\ output' = Append(output, Printed("error", "Could not connect to Ollama"))
    /\ pc' = "done"
    /\ UNCHANGED <<agent, messages, response, tool_calls, idx, final_response,
                   requestLog, execLog, fs, cd_args, cd_out,
                   api_key, eq_in, eq_out>>

(***************************************************************************)
(* The entry points                                                        *)
(***************************************************************************)
\* tool_calling.py run as a script: lines 8-10 build the client from whatever
\* os.getenv returned, lines 161-175 call run_agent
ToolCallingMain(v, user_prompt) ==
    /\ api_key' = v
    /\ ApiStart("run_agent", user_prompt)

ConfigError == Printed("error", "Please set your MISTRAL_API_KEY environment variable")

\* creating_files_tool_calling.py run as a script with USE_API = True:
\* lines 293-300
CreatingFilesMain(v, user_prompt) ==
    LET key == KeyOrPlaceholder(v)
    IN IF key = Placeholder
       THEN /\ pc \in {"idle", "done", "fault"}
            /\ api_key' = key
            /\ agent' = "none"
            /\ pc' = "done"
            /\ output' = <<ConfigError>>
            /\ messages' = <<>>
            /\ requestLog' = <<>>
            /\ response' = NoResponse
            /\ final_response' = NoResponse
            /\ tool_calls' = <<>>
            /\ idx' = 0
            /\ execLog' = <<>>
            /\ UNCHANGED <<fs, cd_args, cd_out, eq_in, eq_out>>
       ELSE /\ api_key' = key
            /\ ApiStart("run_agent_with_api", user_prompt)

\* creating_files_tool_calling.py run as a script with USE_API = False:
\* lines 301-307, no key is read
CreatingFilesMainOllama(user_prompt) ==
    /\ api_key' = Unset
    /\ OllamaStart(user_prompt)

Next ==
    \/ \E v \in EnvValues, u \in Prompts : ToolCallingMain(v, u)
    \/ \E v \in EnvValues, u \in Prompts : CreatingFilesMain(v, u)
    \/ ApiUnauthorized
    \/ \E resp \in ApiResponses : ApiFirstResponse(resp)
    \/ ApiProcessToolCall
    \/ ApiFollowup
    \/ \E resp \in ApiFollowupResponses : ApiFinalResponse(resp)
    \/ ApiConnectionError
    \/ \E u \in Prompts : CreatingFilesMainOllama(u)
    \/ \E resp \in OllamaResponses : OllamaFirstResponse(resp)
    \/ \E resp \in OllamaFinalResponses : OllamaFinalResponse(resp)
    \/ OllamaConnectionError

Spec == Init /\ [][Next]_vars

(***************************************************************************)
(* create_directory called directly, several times with the same arguments *)
(***************************************************************************)
\* most direct calls made with one pair of arguments
MaxCalls == 2

CdArgs == Str(MaxLen) \cup {None}

CdInit ==
    /\ LoopInit
    /\ fs = FS0
    /\ cd_args \in [path : CdArgs, directory_name : CdArgs]
    /\ cd_out = <<>>
    /\ api_key = Unset
    /\ eq_in = NoEq
    /\ eq_out = <<>>

\* create_directory(path, directory_name)
CdCall ==
    /\ Len(cd_out) < MaxCalls
    /\ LET r == create_directory(fs, cd_args.path, cd_args.directory_name)
       IN /\ fs' = r.fs
          /\ cd_out' = Append(cd_out, [exc |-> r.exc, result |-> r.result,
                                       before |-> fs, after |-> r.fs])
    /\ UNCHANGED <<loopVars, cd_args, api_key, eq_in, eq_out>>

CdNext == CdCall

SpecCd == CdInit /\ [][CdNext]_vars

(***************************************************************************)
(* run_agent and run_agent_with_api fed the same prompt, the same model    *)
(* responses and the same filesystem                                       *)
(***************************************************************************)
\* what a whole call leaves behind
Outcome(requests, executed, msgs, f, exc, answer) ==
    [requests |-> requests, executed |-> executed, messages |-> msgs,
     fs |-> f, exc |-> exc, answer |-> answer]

\* the executions of an iteration put before those of the iterations after it
WithExecuted(executed, rest) == [rest EXCEPT !.executed = executed \o @]

\* tool_calling.py: `for tool_call in tool_calls` from the i-th invocation on
\* (ForLoop), and what follows an iteration that left r (ForRest): an
\* exception leaves the loop
RECURSIVE ForLoop(_, _, _, _), ForRest(_, _, _)
ForLoop(f, msgs, calls, i) ==
    IF i > Len(calls)
    THEN [exc |-> NoError, fs |-> f, messages |-> msgs, executed |-> <<>>]
    ELSE ForRest(ProcessToolCall(f, msgs, calls[i]), calls, i)

ForRest(r, calls, i) ==
    IF r.exc # NoError THEN r
    ELSE WithExecuted(r.executed, ForLoop(r.fs, r.messages, calls, i + 1))

\* tool_calling.py: lines 147-154 once the for loop is over, or the exception
\* that left it
AfterLoop(first, loop, final_resp) ==
    IF loop.exc # NoError
    THEN Outcome(<<first>>, loop.executed, loop.messages, loop.fs, loop.exc, "")
    ELSE Outcome(<<first, FollowupRequest(loop.messages)>>, loop.executed,
                 loop.messages, loop.fs, NoError, final_resp.content)

\* tool_calling.py: messages.append(response.choices[0].message)
WithAssistantTurn(msgs, resp) ==
    Append(msgs, [role |-> "assistant", content |-> resp.content,
                  tool_calls |-> resp.tool_calls])

\* tool_calling.py: run_agent(user_prompt) when the endpoint answers resp
\* and then final_resp
run_agent(f, user_prompt, resp, final_resp) ==
    IF WantsTool(resp)
    THEN AfterLoop(FirstRequest(InitialMessages(user_prompt)),
                   ForLoop(f, WithAssistantTurn(InitialMessages(user_prompt), resp),
                           resp.tool_calls, 1),
                   final_resp)
    ELSE Outcome(<<FirstRequest(InitialMessages(user_prompt))>>, <<>>,
                 InitialMessages(user_prompt), f, NoError, resp.content)

\* creating_files_tool_calling.py: the for loop of run_agent_with_api
RECURSIVE ForLoopApi(_, _, _, _), ForRestApi(_, _, _)
ForLoopApi(f, msgs, calls, i) ==
    IF i > Len(calls)
    THEN [exc |-> NoError, fs |-> f, messages |-> msgs, executed |-> <<>>]
    ELSE ForRestApi(ProcessToolCallApi(f, msgs, calls[i]), calls, i)

ForRestApi(r, calls, i) ==
    IF r.exc # NoError THEN r
    ELSE WithExecuted(r.executed, ForLoopApi(r.fs, r.messages, calls, i + 1))

\* creating_files_tool_calling.py: lines 276-281 once the for loop is over,
\* or the exception that left it
AfterLoopApi(first, loop, final_resp) ==
    IF loop.exc # NoError
    THEN Outcome(<<first>>, loop.executed, loop.messages, loop.fs, loop.exc, "")
    ELSE Outcome(<<first, FollowupRequestApi(loop.messages)>>, loop.executed,
                 loop.messages, loop.fs, NoError, final_resp.content)

\* creating_files_tool_calling.py: messages.append(response.choices[0].message)
WithAssistantTurnApi(msgs, resp) ==
    Append(msgs, [role |-> "assistant", content |-> resp.content,
                  tool_calls |-> resp.tool_calls])

\* creating_files_tool_calling.py: run_agent_with_api(user_prompt, api_key)
\* when the endpoint answers resp and then final_resp
run_agent_with_api(f, user_prompt, resp, final_resp) ==
    IF WantsToolApi(resp)
    THEN AfterLoopApi(FirstRequestApi(InitialMessagesApi(user_prompt)),
                      ForLoopApi(f, WithAssistantTurnApi(InitialMessagesApi(user_prompt), resp),
                                 resp.tool_calls, 1),
                      final_resp)
    ELSE Outcome(<<FirstRequestApi(InitialMessagesApi(user_prompt))>>, <<>>,
                 InitialMessagesApi(user_prompt), f, NoError, resp.content)

\* the prompt and the two model responses both loops are fed
EqInit ==
    /\ LoopInit
    /\ fs = FS0
    /\ cd_args = [path |-> <<>>, directory_name |-> <<>>]
    /\ cd_out = <<>>
    /\ api_key = "secret"
    /\ eq_in \in [user_prompt : Prompts, response : ApiResponses,
                  final_response : ApiFollowupResponses]
    /\ eq_out = <<>>

\* python tool_calling.py on the inputs
EqRunAgent ==
    /\ eq_out = <<>>
    /\ eq_out' = <<run_agent(fs, eq_in.user_prompt, eq_in.response,
                             eq_in.final_response)>>
    /\ UNCHANGED <<loopVars, fs, cd_args, cd_out, api_key, eq_in>>

\* python creating_files_tool_calling.py on the same inputs and filesystem
EqRunAgentWithApi ==
    /\ Len(eq_out) = 1
    /\ eq_out' = Append(eq_out, run_agent_with_api(fs, eq_in.user_prompt,
                                                   eq_in.response,
                                                   eq_in.final_response))
    /\ UNCHANGED <<loopVars, fs, cd_args, cd_out, api_key, eq_in>>

EqNext == EqRunAgent \/ EqRunAgentWithApi

SpecEq == EqInit /\ [][EqNext]_vars

(***************************************************************************)
(* Properties                                                              *)
(***************************************************************************)
InApiLoop == agent \in ApiAgents

\* the tool-result turns of a message list
ToolTurns(msgs) == SelectSeq(msgs, LAMBDA m : m.role = "tool")

IsPrefix(a, b) == Len(a) <= Len(b) /\ SubSeq(b, 1, Len(a)) = a

\* the run stopped on an exception raised while the for loop was at an invocation
FaultAtInvocation ==
    /\ InApiLoop
    /\ pc = "fault"
    /\ idx \in 1..Len(tool_calls)

\* C1: in run_agent / run_agent_with_api a create_directory invocation whose
\* argument payload cannot be decoded never ends the run in an unhandled
\* fault (the invocation fails or is skipped and the loop goes on).
C1_UndecodableArgumentsDoNotCrash ==
    ~(/\ FaultAtInvocation
      /\ tool_calls[idx].name = "create_directory"
      /\ json_loads(tool_calls[idx].arguments).exc = "JSONDecodeError")

\* C2: one run makes at most two requests, and once the follow-up request is
\* out nothing more is executed or requested in that run (every step that
\* does not start another run of a loop or of the program), also when the
\* follow-up response asks for a tool call.
C2_AtMostTwoRoundTrips ==
    /\ [](Len(requestLog) <= 2)
    /\ [][(Len(requestLog) = 2 /\ agent' = agent /\ pc' # "awaiting_first")
            => (requestLog' = requestLog /\ execLog' = execLog /\ fs' = fs
                /\ pc' \in {"done", "fault"})]_vars

C2_Witness ==
    /\ pc = "done"
    /\ InApiLoop
    /\ Len(requestLog) = 2
    /\ final_response.finish_reason = "tool_calls"
    /\ Len(final_response.tool_calls) > 0
    /\ Len(execLog) = 1

\* C3: after a first response whose finish reason is not "tool_calls" the run
\* is over after that single round: the text was printed, create_directory
\* was not called, the Conversation still holds only the user turn and no
\* follow-up request was issued.
C3_FinalTextShortCircuits ==
    (InApiLoop /\ response.finish_reason \notin {"", "tool_calls"})
        => /\ pc = "done"
           /\ output[Len(output)] = Printed("final", response.content)
           /\ execLog = <<>>
           /\ Len(messages) = 1
           /\ messages[1].role = "user"
           /\ Len(requestLog) = 1

C3_Witness ==
    /\ InApiLoop
    /\ pc = "done"
    /\ response.finish_reason = "stop"
    /\ Len(response.tool_calls) > 0

\* the invocation identifiers of a sequence of records with an id
Ids(seq) == [j \in 1..Len(seq) |-> seq[j].id]

\* the identifiers tool-result turns are correlated by
TurnIds(turns) == [j \in 1..Len(turns) |-> turns[j].tool_call_id]

\* os.path.isdir of a path string
isdir(f, s) == Len(s) > 0 /\ Resolve(s) \in f.dirs

\* C4: every executed action has exactly one Action Result, appended as a
\* tool-result turn before the follow-up request: the Conversation sent with
\* the follow-up holds one tool-result turn per create_directory execution,
\* carrying that execution's result, and a successful execution left its
\* directory on the filesystem.
C4_OneResultPerExecution ==
    InApiLoop =>
        /\ Len(ToolTurns(messages)) = Len(execLog)
        /\ \A j \in 1..Len(execLog) :
               /\ ToolTurns(messages)[j].content = json_dumps(execLog[j].result)
               /\ execLog[j].result.success => isdir(fs, execLog[j].result.path)
        /\ Len(requestLog) = 2 =>
               /\ Len(ToolTurns(requestLog[2].messages)) = Len(execLog)
               /\ ToolTurns(requestLog[2].messages) = ToolTurns(messages)

C4_Witness ==
    /\ InApiLoop
    /\ pc = "awaiting_final"
    /\ Len(tool_calls) = 1
    /\ Len(execLog) = 1
    /\ execLog[1].path = <<"/", "h">>
    /\ execLog[1].directory_name = <<"f">>
    /\ execLog[1].result.success
    /\ execLog[1].result.path = <<"/", "h", "/", "f">>
    /\ << <<"h">>, <<"f">> >> \in fs.dirs
    /\ Len(ToolTurns(requestLog[2].messages)) = 1

\* C5: an invocation naming an action other than create_directory is
\* skipped silently and the loop goes on: the run never stops at such an
\* invocation.
C5_UnregisteredInvocationIsSkipped ==
    ~(FaultAtInvocation /\ tool_calls[idx].name # "create_directory")

\* what a request offers the model: the tools argument and the tools a
\* system instruction inlines
OfferedTools(req) ==
    {req.tools[j].name : j \in 1..Len(req.tools)}
    \cup UNION {{req.messages[j].content.tools[t].name :
                     t \in 1..Len(req.messages[j].content.tools)} :
                j \in {i \in 1..Len(req.messages) : req.messages[i].role = "system"}}

\* the batch of a hosted-API run was processed to its end
BatchProcessed ==
    /\ InApiLoop
    /\ response.finish_reason = "tool_calls"
    /\ idx > Len(tool_calls)
    /\ pc # "executing"

\* the local-server run executed the requested action
OllamaExecuted == agent = OllamaAgent /\ Len(execLog) > 0

\* exactly one follow-up request, carrying the augmented Conversation, and
\* its text is what the run prints last
FollowupOnceAndEmitted ==
    /\ BatchProcessed =>
           /\ Len(requestLog) = 2
           /\ requestLog[2].messages = messages
           /\ IsPrefix(requestLog[1].messages, requestLog[2].messages)
           /\ Len(requestLog[2].messages) = 2 + Len(execLog)
    /\ OllamaExecuted =>
           /\ Len(requestLog) = 2
           /\ IsPrefix(requestLog[1].messages, requestLog[2].messages)
           /\ Len(requestLog[2].messages) = 4
           /\ requestLog[2].messages[3].content = response.content
           /\ requestLog[2].messages[4].content
                  = <<"Tool execution result: ">> \o json_dumps(execLog[1].result)
    /\ (Len(requestLog) = 2 /\ pc = "done" /\ final_response.content \in Texts) =>
           output[Len(output)] = Printed("final", final_response.content)

\* C6 as stated: after a ToolRequest whose invocations were all processed
\* there is exactly one follow-up call, with the augmented Conversation and
\* no tools offered, and its text is emitted.
C6_FollowupOffersNoTools ==
    /\ FollowupOnceAndEmitted
    /\ Len(requestLog) = 2 => OfferedTools(requestLog[2]) = {}

\* C6 amended: as stated for run_agent / run_agent_with_api; in
\* run_agent_with_ollama the follow-up is issued exactly when create_directory
\* was executed, and it sends the system instruction with the tool
\* description again.
C6_FollowupOnce ==
    /\ FollowupOnceAndEmitted
    /\ (Len(requestLog) = 2 /\ InApiLoop) => OfferedTools(requestLog[2]) = {}
    /\ (Len(requestLog) = 2 /\ agent = OllamaAgent) =>
           /\ OllamaExecuted
           /\ OfferedTools(requestLog[2]) = {"create_directory"}
           /\ requestLog[2].tools = NoTools

C6_Witness ==
    /\ BatchProcessed
    /\ pc = "done"
    /\ Len(tool_calls) = 2
    /\ execLog = <<>>
    /\ Len(requestLog) = 2
    /\ output[Len(output)].kind = "final"

\* the identifiers of the registered invocations of a batch, in batch order
RegisteredIds(batch) ==
    Ids(SelectSeq(batch, LAMBDA c : c.name = "create_directory"))

\* C7: the executions and the tool-result turns follow the batch order
\* restricted to the registered invocations, and when the follow-up request
\* is issued all of them have been executed.
C7_BatchOrder ==
    InApiLoop =>
        /\ IsPrefix(Ids(execLog), RegisteredIds(tool_calls))
        /\ TurnIds(ToolTurns(messages)) = Ids(execLog)
        /\ Len(requestLog) = 2 =>
               /\ Ids(execLog) = RegisteredIds(tool_calls)
               /\ TurnIds(ToolTurns(requestLog[2].messages)) = RegisteredIds(tool_calls)

C7_Witness ==
    /\ InApiLoop
    /\ pc = "awaiting_final"
    /\ Len(tool_calls) = 2
    /\ Ids(execLog) = <<1, 2>>
    /\ execLog[1].path # execLog[2].path

\* C8: create_directory never raises: every call returns an Action Result,
\* with success = true and the joined path, which is a directory afterwards,
\* or with success = false, a message naming the error and path = None, the
\* directory not being there afterwards.
C8_CreateDirectoryNeverRaises ==
    \A k \in 1..Len(cd_out) :
        LET o == cd_out[k]
            strings == cd_args.path # None /\ cd_args.directory_name # None
        IN /\ o.exc = NoError
           /\ o.result.success =>
                  /\ strings
                  /\ o.result.path = join(expanduser(cd_args.path), cd_args.directory_name)
                  /\ isdir(o.after, o.result.path)
           /\ ~o.result.success =>
                  /\ o.result.path = None
                  /\ o.result.message[1] = "Error creating directory: "
                  /\ o.result.message[2] \in
                         {"TypeError", "FileNotFoundError", "FileExistsError",
                          "NotADirectoryError", "PermissionError"}
                  /\ strings =>
                         ~isdir(o.after, join(expanduser(cd_args.path),
                                              cd_args.directory_name))

C8_Witness ==
    /\ Len(cd_out) >= 1
    /\ cd_args.path = <<"/", "r">>
    /\ cd_args.directory_name = <<"h">>
    /\ cd_out[1].exc = NoError
    /\ ~cd_out[1].result.success
    /\ cd_out[1].result.message[2] = "PermissionError"
    /\ cd_out[1].result.path = None

\* C9 as stated: for any base path and directory name two calls with the
\* same arguments both succeed, return the same path, and the second leaves
\* the filesystem as the first left it.
C9_TwiceAlwaysSucceeds ==
    (Len(cd_out) >= 2 /\ cd_args.path # None /\ cd_args.directory_name # None) =>
        /\ cd_out[1].result.success
        /\ cd_out[2].result.success
        /\ cd_out[2].result.path = cd_out[1].result.path
        /\ cd_out[2].after = cd_out[1].after

\* C9 amended: when a call succeeds, the next call with the same arguments
\* succeeds too, returns the same path and leaves the filesystem as the
\* earlier call left it.
C9_Idempotent ==
    \A k \in 1..(Len(cd_out) - 1) :
        (cd_out[k].exc = NoError /\ cd_out[k].result.success) =>
            /\ cd_out[k + 1].exc = NoError
            /\ cd_out[k + 1].result.success
            /\ cd_out[k + 1].result.path = cd_out[k].result.path
            /\ cd_out[k + 1].after = cd_out[k].after

C9_Witness ==
    /\ Len(cd_out) = 2
    /\ cd_args.path = <<"~">>
    /\ cd_args.directory_name = <<"r">>
    /\ cd_out[1].result.success
    /\ cd_out[1].before # cd_out[1].after
    /\ cd_out[2].result.success
    /\ cd_out[2].result.path = <<"/", "h", "/", "r">>
    /\ cd_out[2].before = cd_out[2].after

\* a reply that holds a decodable action request: a brace-delimited region
\* that is valid JSON and decodes to a create_directory request with both
\* arguments
DecodableRequest(llm_response) ==
    LET tc == ExtractToolCall(llm_response)
    IN /\ tc.found
       /\ tc.exc = NoError
       /\ IsCreateDirectory(tc.val)
       /\ HasKey(tc.val, "arguments")
       /\ HasKey(LastOf(tc.val, "arguments"), "path")
       /\ HasKey(LastOf(tc.val, "arguments"), "directory_name")

\* C10: in run_agent_with_ollama a reply without a decodable action request
\* is final text: nothing is executed, no follow-up request is issued and the
\* run ends normally.
C10_UndecodableReplyIsFinalText ==
    (/\ agent = OllamaAgent
     /\ pc \notin {"idle", "awaiting_first"}
     /\ "status_code" \in DOMAIN response
     /\ response.status_code = 200
     /\ ~DecodableRequest(response.content))
        => /\ pc = "done"
           /\ execLog = <<>>
           /\ Len(requestLog) = 1

\* the process found no credential in its environment
CredentialAbsent == api_key \in {Unset, Placeholder}

\* C11: without a credential the hosted-API scripts report a configuration
\* error and stop before any request: no request is issued, the run does not
\* end in a fault, and the last thing printed is the error report.
C11_MissingCredentialIsReported ==
    (CredentialAbsent /\ pc # "idle" /\ agent # OllamaAgent)
        => /\ requestLog = <<>>
           /\ pc = "done"
           /\ output[Len(output)] = ConfigError

\* well-formed create_directory requests a reply can embed
RequestObjects ==
    {[text |-> ToolObject("create_directory", ArgsObject(a.p, a.n)),
      path |-> a.p, directory_name |-> a.n] :
         a \in {[p |-> <<"/", "h">>, n |-> <<"f">>],
                [p |-> <<"/", "r">>, n |-> <<"h">>]}}

\* a first reply of the local server was received and handled
OllamaReplyHandled ==
    /\ agent = OllamaAgent
    /\ pc \notin {"idle", "awaiting_first"}
    /\ "status_code" \in DOMAIN response
    /\ response.status_code = 200

\* the run extracted and decoded exactly this object, and executed it
ExtractedExactly(obj) ==
    /\ ExtractToolCall(response.content)
           = [found |-> TRUE, exc |-> NoError, val |-> json_loads(obj.text).val]
    /\ Len(execLog) = 1
    /\ execLog[1].path = obj.path
    /\ execLog[1].directory_name = obj.directory_name

HasToken(seq, tok) == \E j \in 1..Len(seq) : seq[j] = tok

\* C12 as stated: from a reply made of prose, one embedded create_directory
\* object and prose, exactly that object is extracted and decoded, whatever
\* the prose holds.
C12_ExtractsEmbeddedObject ==
    OllamaReplyHandled =>
        \A pre \in Prose, post \in Prose, obj \in RequestObjects :
            response.content = pre \o obj.text \o post => ExtractedExactly(obj)

\* C12 amended: exactly that object is extracted and decoded when the prose
\* before it holds no "{" and the prose after it holds no "}".
C12_ExtractsEmbeddedObjectBetweenBraceFreeProse ==
    OllamaReplyHandled =>
        \A pre \in Prose, post \in Prose, obj \in RequestObjects :
            (/\ response.content = pre \o obj.text \o post
             /\ ~HasToken(pre, LB)
             /\ ~HasToken(post, RB)) => ExtractedExactly(obj)

C12_Witness ==
    /\ OllamaReplyHandled
    /\ response.content
           = <<RB>> \o ToolObject("create_directory", ArgsObject(<<"/", "h">>, <<"f">>))
                    \o <<W>>
    /\ Len(execLog) = 1
    /\ execLog[1].result.path = <<"/", "h", "/", "f">>

\* a response that has not been received
NotReceived(r) == "finish_reason" \in DOMAIN r /\ r.finish_reason = ""

\* the last thing the run printed reports that the endpoint was unreachable:
\* the message of run_agent_with_ollama's handler, or the traceback of the
\* exception that left run_agent / run_agent_with_api
ConnectionErrorReported ==
    /\ Len(output) > 0
    /\ output[Len(output)].kind \in {"error", "traceback"}
    /\ output[Len(output)].text \in {"Could not connect to Ollama", "ConnectionError"}

\* C13: when the endpoint is unreachable, on the first or on the follow-up
\* request, the error is reported and the run is over; the failed request
\* was issued once and no request follows it in that run.
C13_ConnectionErrorAbortsWithoutRetry ==
    /\ [](ConnectionErrorReported =>
             /\ pc \in {"done", "fault"}
             /\ agent = OllamaAgent => pc = "done"
             /\ NotReceived(final_response)
             /\ IF NotReceived(response)
                THEN Len(requestLog) = 1 /\ execLog = <<>>
                ELSE Len(requestLog) = 2 /\ requestLog[2] # requestLog[1])
    /\ [][ConnectionErrorReported => Len(requestLog') <= Len(requestLog)]_vars

C13_Witness ==
    /\ ConnectionErrorReported
    /\ InApiLoop
    /\ Len(requestLog) = 2
    /\ Len(execLog) = 1
    /\ pc = "fault"

\* the action names the first request of the run describes to the model
DescribedNames == OfferedTools(requestLog[1])

\* the invocations the run has executed
ExecutedIds == {execLog[j].id : j \in 1..Len(execLog)}

\* the action a decoded local-server reply asks for
RequestedTool(llm_response) == LastOf(ExtractToolCall(llm_response).val, "tool").v[1]

\* the local server's reply decoded to an object that names a tool, and
\* handling it did not end in a fault
OllamaToolNamed ==
    /\ OllamaReplyHandled
    /\ pc # "fault"
    /\ ExtractToolCall(response.content).found
    /\ ExtractToolCall(response.content).exc = NoError
    /\ HasKey(ExtractToolCall(response.content).val, "tool")

\* C14: the action names described to the model are the action names the
\* dispatch loop executes: in both files only create_directory is described,
\* an invocation the loop got through was executed exactly if its name is a
\* described one, and write_file is neither described nor executed.
C14_SchemaMatchesRegistry ==
    /\ Len(requestLog) >= 1 => DescribedNames = {"create_directory"}
    /\ InApiLoop =>
           \A j \in 1..Len(tool_calls) :
               j < idx => (j \in ExecutedIds <=> tool_calls[j].name \in DescribedNames)
    /\ OllamaToolNamed =>
           (Len(execLog) = 1 <=> RequestedTool(response.content) \in DescribedNames)

C14_Witness ==
    /\ agent = "run_agent_with_api"
    /\ Len(tool_calls) = 2
    /\ idx = 3
    /\ tool_calls[1].name = "write_file"
    /\ tool_calls[2].name = "create_directory"
    /\ ExecutedIds = {2}

\* the executions of the run recorded for an invocation identifier
ExecutionsOf(id) == {k \in 1..Len(execLog) : execLog[k].id = id}

\* C15: every tool-result turn of the Conversation carries the identifier
\* and the action name of an invocation of the batch that was executed, its
\* content is the Action Result of that execution, and no two tool-result
\* turns carry the same identifier; an invocation that was not executed has
\* no tool-result turn.
C15_ToolTurnCorrelatesWithInvocation ==
    InApiLoop =>
        LET turns == ToolTurns(messages)
        IN /\ \A j \in 1..Len(turns) :
                  /\ turns[j].tool_call_id \in 1..Len(tool_calls)
                  /\ turns[j].name = tool_calls[turns[j].tool_call_id].name
                  /\ Cardinality(ExecutionsOf(turns[j].tool_call_id)) = 1
                  /\ \A k \in ExecutionsOf(turns[j].tool_call_id) :
                         turns[j].content = json_dumps(execLog[k].result)
           /\ \A j, k \in 1..Len(turns) :
                  turns[j].tool_call_id = turns[k].tool_call_id => j = k
           /\ \A i \in 1..Len(tool_calls) :
                  i \notin ExecutedIds => \A j \in 1..Len(turns) : turns[j].tool_call_id # i

C15_Witness ==
    /\ InApiLoop
    /\ pc = "awaiting_final"
    /\ Len(tool_calls) = 2
    /\ Len(execLog) = 2
    /\ execLog[1].result.success
    /\ ~execLog[2].result.success
    /\ TurnIds(ToolTurns(messages)) = <<1, 2>>

\* the Conversation of a run: the user turn, then the assistant's
\* tool-request turn, then tool-result turns
ConversationShape(msgs) ==
    /\ Len(msgs) >= 1
    /\ msgs[1].role = "user"
    /\ Len(msgs) >= 2 => msgs[2].role = "assistant"
    /\ \A j \in 3..Len(msgs) : msgs[j].role = "tool"

\* C16: within one run of run_agent / run_agent_with_api the Conversation
\* only grows at its end, as user turn, assistant tool-request turn and
\* tool-result turns, and a run starts from a Conversation that holds
\* nothing but the user turn made from its own prompt, whatever the run
\* before left.
C16_AppendOnlyAndFreshPerRun ==
    /\ [](InApiLoop => ConversationShape(messages))
    /\ [][(InApiLoop' /\ pc' # "awaiting_first") => IsPrefix(messages, messages')]_vars
    /\ [][(InApiLoop' /\ pc' = "awaiting_first")
            => /\ Len(messages') = 1
               /\ messages'[1].role = "user"
               /\ messages'[1].content[1] = output'[1].text
               /\ requestLog' = <<[messages |-> messages', tools |-> tools,
                                   tool_choice |-> "auto"]>>]_vars

C16_Witness ==
    /\ InApiLoop
    /\ pc = "awaiting_first"
    /\ fs # FS0
    /\ Len(messages) = 1
    /\ messages[1].content[1] = "I need a directory on the desktop"

\* C17: run_agent and run_agent_with_api, fed the same user prompt, the
\* same model responses and the same filesystem, issue the same requests
\* (same conversation, same tools offered), execute the same actions in the
\* same order with the same results, stop on the same exception if any, and
\* end with the same Conversation and the same filesystem.
C17_ApiLoopsEquivalent ==
    Len(eq_out) = 2 =>
        /\ eq_out[1].requests = eq_out[2].requests
        /\ eq_out[1].executed = eq_out[2].executed
        /\ eq_out[1].messages = eq_out[2].messages
        /\ eq_out[1].fs = eq_out[2].fs
        /\ eq_out[1].exc = eq_out[2].exc
        /\ eq_out[1].answer = eq_out[2].answer

C17_Witness ==
    /\ Len(eq_out) = 2
    /\ Len(eq_in.response.tool_calls) = 2
    /\ eq_in.response.tool_calls[1].name = "write_file"
    /\ Len(eq_out[2].requests) = 2
    /\ Len(eq_out[2].executed) = 1
    /\ eq_out[2].executed[1].id = 2
    /\ eq_out[2].fs # FS0
    /\ Len(eq_out[2].messages) = 3

\* the first reply of the local server has arrived with this run's status
OllamaStatus(r) == IF "status_code" \in DOMAIN r THEN r.status_code ELSE 0

\* C18: a run of run_agent_with_ollama executes create_directory at most
\* once, and only after a first response with status 200 whose reply decoded
\* to an object with tool = create_directory; a first response with another
\* status ends the run with nothing executed, the filesystem untouched and
\* no follow-up request.
C18_OllamaExecutesAtMostOnce ==
    /\ [](agent = OllamaAgent =>
              /\ Len(execLog) <= 1
              /\ Len(execLog) = 1 =>
                     /\ OllamaStatus(response) = 200
                     /\ ExtractToolCall(response.content).found
                     /\ ExtractToolCall(response.content).exc = NoError
                     /\ HasKey(ExtractToolCall(response.content).val, "tool")
                     /\ RequestedTool(response.content) = "create_directory"
              /\ OllamaStatus(response) \notin {0, 200} =>
                     /\ pc = "done"
                     /\ execLog = <<>>
                     /\ Len(requestLog) = 1)
    /\ [][(agent = OllamaAgent /\ pc = "awaiting_first"
             /\ OllamaStatus(response') \notin {0, 200}) => fs' = fs]_vars

C18_Witness ==
    /\ agent = OllamaAgent
    /\ pc = "done"
    /\ OllamaStatus(response) = 200
    /\ Len(execLog) = 1
    /\ execLog[1].result.success
    /\ Len(requestLog) = 2
    /\ fs # FS0

====
